---- MODULE Spec2Model ----
(***************************************************************************)
(* The polling / retry primitives of the wait helpers                      *)
(* (src/src/config/users.ts): waitForCondition and retryAction.            *)
(*                                                                         *)
(* One behaviour of Spec is one invocation of one of the two functions.    *)
(* The caller's inputs (the options object, the condition or the action)   *)
(* are drawn in Init.  A step of the model is one run-to-completion        *)
(* segment of the async function: from one await to the next.              *)
(*                                                                         *)
(* Time is the millisecond clock read by Date.now().  Synchronous code     *)
(* takes no time; a timer set by setTimeout(resolve, ms) fires exactly ms  *)
(* later; an awaited asynchronous condition / action takes a duration      *)
(* drawn from Durations.                                                   *)
(***************************************************************************)
EXTENDS Integers, Sequences, FiniteSets, TLC

VARIABLES
    fn,          \* which function this behaviour invokes
    options,     \* the options object passed by the caller
    helper,      \* the wait helper the caller went through, with its options
    callee,      \* the condition (waitForCondition) or the action (retryAction)
    now,         \* Date.now()
    pc,          \* idle | evaluating | waiting | success | exhausted | escaped
    timeout,     \* const timeout    (waitForCondition)
    interval,    \* const interval   (waitForCondition)
    message,     \* const message    (waitForCondition)
    startTime,   \* const startTime  (waitForCondition)
    maxRetries,  \* const maxRetries (retryAction)
    delay,       \* const delay      (retryAction)
    lastError,   \* let lastError    (retryAction), <<>> is undefined
    attempt,     \* let attempt      (retryAction)
    wakeAt,      \* when the pending setTimeout fires
    result,      \* the value the promise resolved with, <<>> if none
    thrown,      \* the message of the error the promise rejected with, <<>> if none
    calls,       \* history: invocations of condition() / action() so far
    settled,     \* history: invocations of condition() / action() that completed
    sleeps,      \* history: timers set so far
    busy,        \* history: time spent awaiting condition() / action()
    log,         \* history: outcome of every evaluation of the condition
    onRetryLog,  \* history: the <<attempt, error>> pairs onRetry was called with
    inv,         \* two interleaved invocations of waitForCondition: the locals of each
    latestStart, \* history: the start time captured by the most recent of them
    browser,     \* demo app: per browser, its session cookie and the page it shows
    db,          \* demo app: the rows of the todos table
    req          \* demo app, history: the last request and the response to it

vars == <<fn, options, helper, callee, now, pc, timeout, interval, message, startTime,
          maxRetries, delay, lastError, attempt, wakeAt, result, thrown,
          calls, settled, sleeps, busy, log, onRetryLog, inv, latestStart,
          browser, db, req>>

(***************************************************************************)
(* Program constants and bounds                                            *)
(***************************************************************************)
TIMEOUTS_MEDIUM == 10000
WAIT_RETRY == 2000
DEFAULT_MAX_RETRIES == 3
DefaultMessage == "Condition was not met within timeout"

\* longest scripted prefix of a condition / an action
MaxPrefix == 3
\* an asynchronous evaluation lasts 0..MaxDurSteps units of 1500 ms
MaxDurSteps == 2

\* an optional property of an options object: <<>> is undefined
Opt(S) == {<<>>} \cup {<<v>> : v \in S}
Prefixes(S) == UNION {[1..n -> S] : n \in 0..MaxPrefix}

TimeoutValues == {-1, 0, 3000, 5000}
\* what Date.now() reads when the call is made
StartClocks == {0, 250}
IntervalValues == {0, 1000, 4000}
MessageValues == {"", "Item count did not exceed 5"}
MaxRetriesValues == {-1, 0, 1, 2, 4}
DelayValues == {0, 500}
Errors == {"e1", "e2"}

WfcOptions == [timeout : Opt(TimeoutValues), interval : Opt(IntervalValues),
               message : Opt(MessageValues)]
\* a condition: what its i-th call does (the prefix, then the tail for ever),
\* and whether it returns a boolean or a promise of one
Conditions == [prefix : Prefixes({"false", "throw"}),
               tail : {"true", "false", "throw"}, async : BOOLEAN]
RaOptions == [maxRetries : Opt(MaxRetriesValues), delay : Opt(DelayValues),
              onRetry : {"absent", "returns", "throws"}]
\* an action: its first calls throw the errors of the prefix; every later call
\* throws the tail error, or (tail "return") returns its own call number
Actions == [prefix : Prefixes(Errors), tail : {"return"} \cup Errors, async : BOOLEAN]

Durations(c) == IF c.async THEN {k * 1500 : k \in 0..MaxDurSteps} ELSE {0}

(***************************************************************************)
(* Pure pieces of the two functions                                        *)
(***************************************************************************)
\* mutant: the option is never read
OrDefaultIgnoresOption(o, d) == d
\* mutant: options.x ?? d, which keeps an explicit 0
OrDefaultNullish(o, d) == IF o # <<>> THEN o[1] ELSE d
\* options.x || d  for a number: undefined and 0 are falsy
OrDefault(o, d) == IF o # <<>> /\ o[1] # 0 THEN o[1] ELSE d
\* options.message || d : undefined and "" are falsy
OrDefaultText(o, d) == IF o # <<>> /\ o[1] # "" THEN o[1] ELSE d

\* mutant: the loop guard with the comparison turned round
LoopGuardInverted(n, s, t) == n - s > t
\* mutant: the loop is entered also at an elapsed time equal to the timeout
LoopGuardInclusive(n, s, t) == n - s <= t
\* while (Date.now() - startTime < timeout)
LoopGuard(n, s, t) == n - s < t

\* mutant: the message annotated with the interval
TimeoutErrorTextInterval(m, t, i) == m \o " (timeout: " \o ToString(i) \o "ms)"
\* `${message} (timeout: ${timeout}ms)`
TimeoutErrorText(m, t, i) == m \o " (timeout: " \o ToString(t) \o "ms)"

\* mutant: the catch block rethrows
PropagatesThrow(outcome) == outcome = "throw"
\* catch (error) { } : nothing the condition throws leaves the try statement
Propagates(outcome) == FALSE
\* what a throwing condition throws
ConditionError == "condition failed"

\* mutant: the loop body calls the callee a second time, the first call pending
InvokeTwice(c) == c + 2
\* condition() / action(): one invocation per loop iteration
Invoke(c) == c + 1

\* condition() on its i-th call
ConditionResult(c, i) == IF i <= Len(c.prefix) THEN c.prefix[i] ELSE c.tail

\* mutant: a thrown evaluation skips the sleep (catch { continue })
SleepsAfterOnlyFalse(outcome) == outcome = "false"
\* the sleep of line 217 follows the try/catch: it is reached after a false
\* result and after a swallowed error alike
SleepsAfter(outcome) == outcome \in {"false", "throw"}

\* mutant: setTimeout(resolve) without the delay
TimerDueAtOnce(n, ms) == n
\* mutant: the timer is set for twice the interval
TimerDueDouble(n, ms) == n + 2 * ms
\* setTimeout(resolve, ms) set at time n
TimerDue(n, ms) == n + ms

\* action() on its i-th call
ActionResult(a, i) ==
    IF i <= Len(a.prefix) THEN [threw |-> TRUE, value |-> a.prefix[i]]
    ELSE IF a.tail = "return" THEN [threw |-> FALSE, value |-> i]
    ELSE [threw |-> TRUE, value |-> a.tail]

\* for (...; attempt <= maxRetries; ...)
RetryGuard(a, m) == a <= m
\* mutant: no sleep before the last permitted attempt
SleepsBeforeRetryOffByOne(a, m) == a < m - 1
\* if (attempt < maxRetries) await sleep
SleepsBeforeRetry(a, m) == a < m
\* `Action failed after ${maxRetries} retries. Last error: ${lastError?.message}`
ExhaustedErrorText(m, e) ==
    "Action failed after " \o ToString(m) \o " retries. Last error: "
        \o (IF e = <<>> THEN "undefined" ELSE e[1])
\* mutant: onRetry is called only when another attempt follows
NotifiesObserverBeforeRetryOnly(o, a, m) == o # "absent" /\ a < m
\* if (options.onRetry) options.onRetry(attempt, lastError): on every failure
NotifiesObserver(o, a, m) == o # "absent"
\* what a throwing onRetry callback throws
ObserverError == "onRetry failed"

(***************************************************************************)
(* Init: the caller is about to invoke one of the two functions            *)
(***************************************************************************)
\* one invocation on its own: no second invocation exists
Alone == inv = <<>> /\ latestStart = 0
pair == <<inv, latestStart>>
\* the demo app is not involved
app == <<browser, db, req>>
NoApp ==
    /\ browser = <<>>
    /\ db = {}
    /\ req = [kind |-> "none"]
\* the caller invoked the function directly
NoHelper == [name |-> "none", options |-> [timeout |-> <<>>]]

Init ==
    /\ fn \in {"waitForCondition", "retryAction"}
    /\ helper = NoHelper
    /\ \/ fn = "waitForCondition" /\ options \in WfcOptions /\ callee \in Conditions
       \/ fn = "retryAction" /\ options \in RaOptions /\ callee \in Actions
    /\ now \in StartClocks
    /\ pc = "idle"
    /\ timeout = 0 /\ interval = 0 /\ message = "" /\ startTime = 0
    /\ maxRetries = 0 /\ delay = 0 /\ lastError = <<>> /\ attempt = 0
    /\ wakeAt = 0 /\ result = <<>> /\ thrown = <<>>
    /\ calls = 0 /\ settled = 0 /\ sleeps = 0 /\ busy = 0 /\ log = <<>> /\ onRetryLog = <<>>
    /\ Alone
    /\ NoApp

wfcConsts == <<timeout, interval, message, startTime>>
raConsts == <<maxRetries, delay>>
inputs == <<fn, options, helper, callee, pair, app>>

(***************************************************************************)
(* waitForCondition                                                        *)
(***************************************************************************)
\* Top of the while loop at time n: either condition() is invoked and awaited,
\* or the loop is left and the timeout error is thrown (lines 207-209, 220).
WfcIterate(n, s, t, m, i) ==
    IF LoopGuard(n, s, t)
    THEN /\ pc' = "evaluating"
         /\ calls' = Invoke(calls)
         /\ thrown' = thrown
    ELSE /\ pc' = "exhausted"
         /\ calls' = calls
         /\ thrown' = <<TimeoutErrorText(m, t, i)>>

\* Entry with options object o: read the options, capture the start time, enter
\* the loop (lines 201-209).
WfcEnter(o) ==
    /\ timeout' = OrDefault(o.timeout, TIMEOUTS_MEDIUM)
    /\ interval' = OrDefault(o.interval, WAIT_RETRY)
    /\ message' = OrDefaultText(o.message, DefaultMessage)
    /\ startTime' = now
    /\ WfcIterate(now, startTime', timeout', message', interval')

\* The call by the caller itself.
WfcCall ==
    /\ fn = "waitForCondition" /\ pc = "idle"
    /\ WfcEnter(options)
    /\ UNCHANGED <<inputs, now, raConsts, lastError, attempt, wakeAt, result,
                   settled, sleeps, busy, log, onRetryLog>>

\* The awaited condition settles after d ms: return on a true result; after a
\* false result or a swallowed error set the timer, or (mutants only) loop at once.
WfcEvaluated ==
    /\ fn = "waitForCondition" /\ pc = "evaluating"
    /\ \E d \in Durations(callee) :
        LET outcome == ConditionResult(callee, calls) IN
        /\ now' = now + d
        /\ busy' = busy + d
        /\ log' = Append(log, outcome)
        /\ settled' = settled + 1
        /\ IF outcome = "true"
           THEN /\ pc' = "success"
                /\ UNCHANGED <<wakeAt, sleeps, calls, thrown>>
           ELSE IF Propagates(outcome)
           THEN /\ pc' = "escaped"
                /\ thrown' = <<ConditionError>>
                /\ UNCHANGED <<wakeAt, sleeps, calls>>
           ELSE IF SleepsAfter(outcome)
           THEN /\ pc' = "waiting"
                /\ wakeAt' = TimerDue(now', interval)
                /\ sleeps' = sleeps + 1
                /\ UNCHANGED <<calls, thrown>>
           ELSE /\ WfcIterate(now', startTime, timeout, message, interval)
                /\ UNCHANGED <<wakeAt, sleeps>>
    /\ UNCHANGED <<inputs, wfcConsts, raConsts, lastError, attempt, result, onRetryLog>>

\* The timer fires: back to the top of the loop.
WfcWake ==
    /\ fn = "waitForCondition" /\ pc = "waiting"
    /\ now' = wakeAt
    /\ WfcIterate(now', startTime, timeout, message, interval)
    /\ UNCHANGED <<inputs, wfcConsts, raConsts, lastError, attempt, wakeAt, result,
                   settled, sleeps, busy, log, onRetryLog>>

(***************************************************************************)
(* retryAction                                                             *)
(***************************************************************************)
\* Top of the for loop with attempt a: either action() is invoked and awaited,
\* or the loop is left and the final error is thrown (lines 423-425, 439-441).
RaIterate(a, m, e) ==
    IF RetryGuard(a, m)
    THEN /\ pc' = "evaluating"
         /\ calls' = Invoke(calls)
         /\ thrown' = thrown
    ELSE /\ pc' = "exhausted"
         /\ calls' = calls
         /\ thrown' = <<ExhaustedErrorText(m, e)>>

\* The call: read the options, start with attempt 1.
RaCall ==
    /\ fn = "retryAction" /\ pc = "idle"
    /\ maxRetries' = OrDefault(options.maxRetries, DEFAULT_MAX_RETRIES)
    /\ delay' = OrDefault(options.delay, WAIT_RETRY)
    /\ lastError' = <<>>
    /\ attempt' = 1
    /\ RaIterate(attempt', maxRetries', lastError')
    /\ UNCHANGED <<inputs, now, wfcConsts, wakeAt, result, settled, sleeps, busy, log,
                   onRetryLog>>

\* The awaited action settles after d ms: return its value, or handle its error
\* (record it, call onRetry, then sleep or fall out of the loop).
RaSettled ==
    /\ fn = "retryAction" /\ pc = "evaluating"
    /\ \E d \in Durations(callee) :
        LET r == ActionResult(callee, calls) IN
        /\ now' = now + d
        /\ busy' = busy + d
        /\ settled' = settled + 1
        /\ IF ~r.threw
           THEN /\ pc' = "success"
                /\ result' = <<r.value>>
                /\ UNCHANGED <<lastError, attempt, wakeAt, thrown, calls, sleeps, onRetryLog>>
           ELSE /\ lastError' = <<r.value>>
                /\ result' = result
                /\ onRetryLog' = IF NotifiesObserver(options.onRetry, attempt, maxRetries)
                                 THEN Append(onRetryLog, <<attempt, r.value>>)
                                 ELSE onRetryLog
                /\ IF NotifiesObserver(options.onRetry, attempt, maxRetries)
                      /\ options.onRetry = "throws"
                   THEN /\ pc' = "escaped"
                        /\ thrown' = <<ObserverError>>
                        /\ UNCHANGED <<attempt, wakeAt, calls, sleeps>>
                   ELSE IF SleepsBeforeRetry(attempt, maxRetries)
                   THEN /\ pc' = "waiting"
                        /\ wakeAt' = TimerDue(now', delay)
                        /\ sleeps' = sleeps + 1
                        /\ UNCHANGED <<attempt, calls, thrown>>
                   ELSE /\ attempt' = attempt + 1
                        /\ RaIterate(attempt', maxRetries, lastError')
                        /\ UNCHANGED <<wakeAt, sleeps>>
    /\ UNCHANGED <<inputs, wfcConsts, raConsts, log>>

\* The timer fires: attempt++ and back to the top of the loop.
RaWake ==
    /\ fn = "retryAction" /\ pc = "waiting"
    /\ now' = wakeAt
    /\ attempt' = attempt + 1
    /\ RaIterate(attempt', maxRetries, lastError)
    /\ UNCHANGED <<inputs, wfcConsts, raConsts, lastError, wakeAt, result,
                   settled, sleeps, busy, log, onRetryLog>>

Next == WfcCall \/ WfcEvaluated \/ WfcWake \/ RaCall \/ RaSettled \/ RaWake

Spec == Init /\ [][Next]_vars

\* Every awaited evaluation settles and every timer fires: a pending step of the
\* invocation is eventually taken.
SpecLive == Spec /\ WF_vars(Next)

(***************************************************************************)
(* waitForApiCondition: its own polling loop around an awaited GET request  *)
(***************************************************************************)
API_DEFAULT_TIMEOUT == 30000
API_DEFAULT_INTERVAL == 2000

ApiTimeoutValues == {0, 3000, 5000}
ApiOptions == [timeout : Opt(ApiTimeoutValues), interval : Opt(IntervalValues)]
\* the outcomes of the successive polls: "true" / "false" is what the predicate
\* returns for the response, "throw" is a request or a predicate that throws
Requests == {c \in Conditions : c.async}
RequestError == "request failed"

\* while (Date.now() - startTime < timeout)
ApiLoopGuard(n, s, t) == n - s < t
\* the loop body has no try/catch: what get() or condition(response) throws
\* leaves the function
ApiPropagates(outcome) == outcome = "throw"
ApiTimeoutErrorText(t) == "API condition not met within timeout (" \o ToString(t) \o "ms)"

ApiInit ==
    /\ fn = "waitForApiCondition"
    /\ helper = NoHelper
    /\ options \in ApiOptions
    /\ callee \in Requests
    /\ now \in StartClocks
    /\ pc = "idle"
    /\ timeout = 0 /\ interval = 0 /\ message = "" /\ startTime = 0
    /\ maxRetries = 0 /\ delay = 0 /\ lastError = <<>> /\ attempt = 0
    /\ wakeAt = 0 /\ result = <<>> /\ thrown = <<>>
    /\ calls = 0 /\ settled = 0 /\ sleeps = 0 /\ busy = 0
    /\ log = <<>> /\ onRetryLog = <<>>
    /\ Alone
    /\ NoApp

\* Top of the while loop: either the request is sent and awaited, or the loop is
\* left and the timeout error is thrown (lines 344-345, 354).
ApiIterate(n, s, t) ==
    IF ApiLoopGuard(n, s, t)
    THEN /\ pc' = "evaluating"
         /\ calls' = Invoke(calls)
         /\ thrown' = thrown
    ELSE /\ pc' = "exhausted"
         /\ calls' = calls
         /\ thrown' = <<ApiTimeoutErrorText(t)>>

\* The call: read the options, take the start time, first loop test.
ApiCall ==
    /\ fn = "waitForApiCondition" /\ pc = "idle"
    /\ timeout' = OrDefault(options.timeout, API_DEFAULT_TIMEOUT)
    /\ interval' = OrDefault(options.interval, API_DEFAULT_INTERVAL)
    /\ startTime' = now
    /\ ApiIterate(now, startTime', timeout')
    /\ UNCHANGED <<inputs, now, message, raConsts, lastError, attempt, wakeAt, result,
                   settled, sleeps, busy, log, onRetryLog>>

\* The awaited request settles after d ms: a throw leaves the function, a
\* response the predicate accepts returns, any other response sets the timer.
ApiResponded ==
    /\ fn = "waitForApiCondition" /\ pc = "evaluating"
    /\ \E d \in Durations(callee) :
        LET outcome == ConditionResult(callee, calls) IN
        /\ now' = now + d
        /\ busy' = busy + d
        /\ log' = Append(log, outcome)
        /\ settled' = settled + 1
        /\ IF ApiPropagates(outcome)
           THEN /\ pc' = "escaped"
                /\ thrown' = <<RequestError>>
                /\ UNCHANGED <<wakeAt, sleeps>>
           ELSE IF outcome = "true"
           THEN /\ pc' = "success"
                /\ UNCHANGED <<wakeAt, sleeps, thrown>>
           ELSE /\ pc' = "waiting"
                /\ wakeAt' = TimerDue(now', interval)
                /\ sleeps' = sleeps + 1
                /\ thrown' = thrown
    /\ UNCHANGED <<inputs, wfcConsts, raConsts, lastError, attempt, result, calls,
                   onRetryLog>>

\* The timer fires: back to the top of the loop.
ApiWake ==
    /\ fn = "waitForApiCondition" /\ pc = "waiting"
    /\ now' = wakeAt
    /\ ApiIterate(now', startTime, timeout)
    /\ UNCHANGED <<inputs, wfcConsts, raConsts, lastError, attempt, wakeAt, result,
                   settled, sleeps, busy, log, onRetryLog>>

ApiNext == ApiCall \/ ApiResponded \/ ApiWake

SpecApi == ApiInit /\ [][ApiNext]_vars

(***************************************************************************)
(* The wait helpers: waitForText, waitForElementCount, waitForUrlContains,  *)
(* waitForAttribute.  Each builds a condition and an options object and     *)
(* calls waitForCondition.                                                  *)
(***************************************************************************)
HelperNames == {"waitForText", "waitForElementCount", "waitForUrlContains",
                "waitForAttribute"}
HelperOptions == [timeout : Opt(TimeoutValues)]
\* the condition a helper builds: a page read that returns or throws, awaited in
\* all helpers but waitForUrlContains, whose page.url() is synchronous
HelperConditions(h) == {c \in Conditions : c.async = (h # "waitForUrlContains")}

\* message: `...` of the helper called with expectedText "Welcome",
\* expectedCount 5, urlPart "/dashboard", attribute "aria-expanded"
HelperMessage(h) ==
    CASE h = "waitForText" -> "Text \"Welcome\" did not appear"
      [] h = "waitForElementCount" -> "Element count did not reach 5"
      [] h = "waitForUrlContains" -> "URL did not contain \"/dashboard\""
      [] h = "waitForAttribute" -> "Attribute \"aria-expanded\" did not match expected value"

\* the options object the helper passes on: timeout and message, no interval
ForwardedOptions(h, o) ==
    [timeout |-> <<OrDefault(o.timeout, TIMEOUTS_MEDIUM)>>,
     interval |-> <<>>,
     message |-> <<HelperMessage(h)>>]

HelpersInit ==
    /\ fn \in HelperNames
    /\ options \in HelperOptions
    /\ helper = [name |-> fn, options |-> options]
    /\ callee \in HelperConditions(fn)
    /\ now \in StartClocks
    /\ pc = "idle"
    /\ timeout = 0 /\ interval = 0 /\ message = "" /\ startTime = 0
    /\ maxRetries = 0 /\ delay = 0 /\ lastError = <<>> /\ attempt = 0
    /\ wakeAt = 0 /\ result = <<>> /\ thrown = <<>>
    /\ calls = 0 /\ settled = 0 /\ sleeps = 0 /\ busy = 0
    /\ log = <<>> /\ onRetryLog = <<>>
    /\ Alone
    /\ NoApp

\* The call of a helper: it calls waitForCondition at once, which runs to its
\* first await.
HelperCall ==
    /\ fn \in HelperNames /\ pc = "idle"
    /\ fn' = "waitForCondition"
    /\ options' = ForwardedOptions(fn, options)
    /\ WfcEnter(options')
    /\ UNCHANGED <<helper, callee, pair, app, now, raConsts, lastError, attempt, wakeAt, result,
                   settled, sleeps, busy, log, onRetryLog>>

HelpersNext == HelperCall \/ WfcEvaluated \/ WfcWake

SpecHelpers == HelpersInit /\ [][HelpersNext]_vars

(***************************************************************************)
(* Two invocations of waitForCondition interleaved on one event loop.  Each *)
(* has its own condition, options and locals; the clock is shared.  An      *)
(* evaluation of invocation i lasts dur ms; of the pending events (a call,  *)
(* an evaluation settling, a timer firing) an earliest one runs next.       *)
(***************************************************************************)
MaxPairPrefix == 1

PairTimeouts == {3000, 5000}
PairIntervals == {1000, 4000}
PairDurations == {0, 1500}
PairCallTimes == {0, 1500}
PairConditions == [prefix : UNION {[1..n -> {"false", "throw"}] : n \in 0..MaxPairPrefix},
                   tail : {"true", "false"}]
PairOptions == [timeout : {<<t>> : t \in PairTimeouts},
                interval : {<<i>> : i \in PairIntervals}]

\* mutant: startTime is a variable of the module, written by every call
StartTimeShared(own, latest) == latest
\* const startTime = Date.now(): a local of the invocation
StartTimeOf(own, latest) == own

PairInit ==
    /\ inv \in [1..2 -> [pc : {"idle"}, options : PairOptions, cond : PairConditions,
                         dur : PairDurations, timeout : {0}, interval : {0},
                         startTime : {0}, calls : {0}, due : PairCallTimes]]
    /\ inv[1].due = 0
    /\ latestStart = 0
    /\ NoApp
    /\ now = 0
    /\ fn = "waitForCondition"
    /\ options = [timeout |-> <<>>, interval |-> <<>>, message |-> <<>>]
    /\ callee = [prefix |-> <<>>, tail |-> "true", async |-> FALSE]
    /\ helper = NoHelper
    /\ pc = "idle"
    /\ timeout = 0 /\ interval = 0 /\ message = "" /\ startTime = 0
    /\ maxRetries = 0 /\ delay = 0 /\ lastError = <<>> /\ attempt = 0
    /\ wakeAt = 0 /\ result = <<>> /\ thrown = <<>>
    /\ calls = 0 /\ settled = 0 /\ sleeps = 0 /\ busy = 0
    /\ log = <<>> /\ onRetryLog = <<>>

Ended(r) == r.pc \in {"success", "exhausted", "escaped"}
\* invocation i holds an earliest pending event
IsNext(i) ==
    /\ ~Ended(inv[i])
    /\ \A j \in DOMAIN inv : ~Ended(inv[j]) => inv[i].due <= inv[j].due

\* Top of the while loop of invocation r at time n (lines 207-209, 220).
PairIterate(r, n, latest) ==
    IF LoopGuard(n, StartTimeOf(r.startTime, latest), r.timeout)
    THEN [r EXCEPT !.pc = "evaluating", !.calls = Invoke(@), !.due = n + r.dur]
    ELSE [r EXCEPT !.pc = "exhausted", !.due = n]

\* Invocation i is called: read the options, capture the start time, enter the loop.
PairCall ==
    \E i \in DOMAIN inv :
        /\ inv[i].pc = "idle" /\ IsNext(i)
        /\ now' = inv[i].due
        /\ latestStart' = now'
        /\ LET r == [inv[i] EXCEPT
                        !.timeout = OrDefault(inv[i].options.timeout, TIMEOUTS_MEDIUM),
                        !.interval = OrDefault(inv[i].options.interval, WAIT_RETRY),
                        !.startTime = now']
           IN  inv' = [inv EXCEPT ![i] = PairIterate(r, now', latestStart')]
        /\ UNCHANGED <<app, fn, options, helper, callee, pc, wfcConsts, raConsts, lastError,
                       attempt, wakeAt, result, thrown, calls, settled, sleeps, busy,
                       log, onRetryLog>>

\* The awaited condition of invocation i settles: return, or set the timer.
PairEvaluated ==
    \E i \in DOMAIN inv :
        /\ inv[i].pc = "evaluating" /\ IsNext(i)
        /\ now' = inv[i].due
        /\ LET outcome == ConditionResult(inv[i].cond, inv[i].calls)
           IN  inv' = [inv EXCEPT ![i] =
                         IF outcome = "true" THEN [@ EXCEPT !.pc = "success"]
                         ELSE IF Propagates(outcome) THEN [@ EXCEPT !.pc = "escaped"]
                         ELSE IF SleepsAfter(outcome)
                         THEN [@ EXCEPT !.pc = "waiting",
                                        !.due = TimerDue(now', inv[i].interval)]
                         ELSE PairIterate(@, now', latestStart)]
        /\ UNCHANGED <<app, fn, options, helper, callee, pc, wfcConsts, raConsts, lastError,
                       attempt, wakeAt, result, thrown, calls, settled, sleeps, busy,
                       log, onRetryLog, latestStart>>

\* The timer of invocation i fires: back to the top of its loop.
PairWake ==
    \E i \in DOMAIN inv :
        /\ inv[i].pc = "waiting" /\ IsNext(i)
        /\ now' = inv[i].due
        /\ inv' = [inv EXCEPT ![i] = PairIterate(@, now', latestStart)]
        /\ UNCHANGED <<app, fn, options, helper, callee, pc, wfcConsts, raConsts, lastError,
                       attempt, wakeAt, result, thrown, calls, settled, sleeps, busy,
                       log, onRetryLog, latestStart>>

PairNext == PairCall \/ PairEvaluated \/ PairWake

SpecPair == PairInit /\ [][PairNext]_vars

(***************************************************************************)
(* Demo app: route protection by the middleware.  A browser holds or lacks  *)
(* the session cookie; it navigates, logs in on the login page and logs out *)
(* on the dashboard.  Path names are strings, compared as the code does.    *)
(***************************************************************************)
StartsWith(p, r) == Len(p) >= Len(r) /\ SubSeq(p, 1, Len(r)) = r
EndsWith(p, r) == Len(p) >= Len(r) /\ SubSeq(p, Len(p) - Len(r) + 1, Len(p)) = r

ProtectedRoutes == {"/dashboard", "/todos"}
AuthRoutes == {"/login", "/register"}
ImageExtensions == {".svg", ".png", ".jpg", ".jpeg", ".gif", ".webp"}

\* the paths a browser asks for
Paths == {"/", "/about", "/login", "/register", "/dashboard", "/dashboard/settings",
          "/dashboard/chart.png", "/todos", "/todos/7", "/todos-archive",
          "/todos/export.svg", "/api/todos", "/api/auth/get-session",
          "/_next/static/app.js", "/logo.png"}

\* config.matcher: the middleware runs for every path but api/ (other than
\* api/auth), _next/static, _next/image, favicon.ico and paths ending in an
\* image extension
MatcherCovers(p) ==
    LET rest == Tail(p) IN
    ~ \/ StartsWith(rest, "api/") /\ ~StartsWith(rest, "api/auth")
      \/ StartsWith(rest, "_next/static")
      \/ StartsWith(rest, "_next/image")
      \/ StartsWith(rest, "favicon.ico")
      \/ \E e \in ImageExtensions : EndsWith(rest, e)

\* mutant: a protected route is matched exactly, not by prefix
IsProtectedRouteExact(p) == p \in ProtectedRoutes
\* protectedRoutes.some((route) => pathname.startsWith(route))
IsProtectedRoute(p) == \E route \in ProtectedRoutes : StartsWith(p, route)
\* authRoutes.some((route) => pathname.startsWith(route))
IsAuthRoute(p) == \E route \in AuthRoutes : StartsWith(p, route)

Served == [kind |-> "next", to |-> "", from |-> ""]
RedirectTo(url, f) == [kind |-> "redirect", to |-> url, from |-> f]

\* middleware(request): the response to a request for pathname p that carries
\* (c) or lacks the session cookie
Middleware(p, c) ==
    IF IsProtectedRoute(p) /\ ~c THEN RedirectTo("/login", p)
    ELSE IF IsAuthRoute(p) /\ c THEN RedirectTo("/dashboard", "")
    ELSE Served

\* the framework runs the middleware only for the paths the matcher covers
Respond(p, c) == IF MatcherCovers(p) THEN Middleware(p, c) ELSE Served

\* the page the browser ends on when it asks for p and follows the redirects
RECURSIVE Land(_, _, _)
Land(p, c, f) ==
    LET r == Respond(p, c) IN
    IF r.kind = "next" THEN [cookie |-> c, url |-> p, from |-> f]
    ELSE Land(r.to, c, r.from)

\* two browsers (browser contexts), each with its own cookies
Browsers == {"b1", "b2"}

NavInit ==
    /\ browser = [b \in Browsers |-> [cookie |-> FALSE, url |-> "/", from |-> ""]]
    /\ db = {}
    /\ req = [kind |-> "none"]
    /\ fn = "none" /\ options = <<>> /\ helper = NoHelper /\ callee = <<>>
    /\ now = 0 /\ pc = "idle"
    /\ timeout = 0 /\ interval = 0 /\ message = "" /\ startTime = 0
    /\ maxRetries = 0 /\ delay = 0 /\ lastError = <<>> /\ attempt = 0
    /\ wakeAt = 0 /\ result = <<>> /\ thrown = <<>>
    /\ calls = 0 /\ settled = 0 /\ sleeps = 0 /\ busy = 0
    /\ log = <<>> /\ onRetryLog = <<>>
    /\ Alone

polling == <<fn, options, helper, callee, now, pc, wfcConsts, raConsts, lastError,
             attempt, wakeAt, result, thrown, calls, settled, sleeps, busy, log,
             onRetryLog, pair>>

\* Browser b asks for path p (address bar, link, page.goto).
Navigate ==
    \E b \in Browsers, p \in Paths :
        /\ req' = [kind |-> "navigate", browser |-> b, path |-> p,
                   cookie |-> browser[b].cookie,
                   response |-> Respond(p, browser[b].cookie)]
        /\ browser' = [browser EXCEPT ![b] = Land(p, browser[b].cookie, "")]
        /\ UNCHANGED <<db, polling>>

\* The login form is submitted with valid credentials: the sign-in sets the
\* session cookie, then router.push(from) with from = searchParams.get('from')
\* || '/dashboard'.
Login ==
    \E b \in Browsers :
        /\ browser[b].url = "/login"
        /\ LET target == IF browser[b].from # "" THEN browser[b].from ELSE "/dashboard" IN
           /\ req' = [kind |-> "navigate", browser |-> b, path |-> target,
                      cookie |-> TRUE, response |-> Respond(target, TRUE)]
           /\ browser' = [browser EXCEPT ![b] = Land(target, TRUE, "")]
        /\ UNCHANGED <<db, polling>>

\* The logout button of the dashboard: signOut() clears the session cookie,
\* then router.push('/').
Logout ==
    \E b \in Browsers :
        /\ browser[b].url = "/dashboard" /\ browser[b].cookie
        /\ req' = [kind |-> "navigate", browser |-> b, path |-> "/",
                   cookie |-> FALSE, response |-> Respond("/", FALSE)]
        /\ browser' = [browser EXCEPT ![b] = Land("/", FALSE, "")]
        /\ UNCHANGED <<db, polling>>

NavNext == Navigate \/ Login \/ Logout

SpecNav == NavInit /\ [][NavNext]_vars

(***************************************************************************)
(* Demo app: the todo API.  A row of the todos table is [id, userId,        *)
(* completed]; a request carries the session of one of two users or none.   *)
(***************************************************************************)
MaxTodos == 3

Users == {"A", "B"}
Sessions == Users \cup {"none"}
TodoIds == 1..MaxTodos
\* the JSON body of a PATCH: any of the columns, each present or not
PatchBodies == [completed : Opt(BOOLEAN), userId : Opt(Users)]

\* db.select().from(todos).where(eq(todos.userId, session.user.id))
UserTodos(rows, u) == {t \in rows : t.userId = u}

\* mutant: the active count is taken over the whole table
StatsActiveOfAll(rows, u) ==
    [total |-> Cardinality(UserTodos(rows, u)),
     completed |-> Cardinality({t \in UserTodos(rows, u) : t.completed}),
     active |-> Cardinality({t \in rows : ~t.completed})]
\* the stats object of GET /api/todos/stats
Stats(rows, u) ==
    [total |-> Cardinality(UserTodos(rows, u)),
     completed |-> Cardinality({t \in UserTodos(rows, u) : t.completed}),
     active |-> Cardinality({t \in UserTodos(rows, u) : ~t.completed})]

\* mutant: the update writes every column of the body but completed
ApplyPatchKeepsCompleted(t, body) ==
    [t EXCEPT !.userId = IF body.userId # <<>> THEN body.userId[1] ELSE @]
\* .set({ ...body, updatedAt }): every column the body names is written
ApplyPatch(t, body) ==
    [t EXCEPT !.completed = IF body.completed # <<>> THEN body.completed[1] ELSE @,
              !.userId = IF body.userId # <<>> THEN body.userId[1] ELSE @]

\* and(eq(todos.id, id), eq(todos.userId, session.user.id))
OwnRow(t, id, u) == t.id = id /\ t.userId = u

TodosInit ==
    /\ db = [rows |-> {}, seq |-> 0]
    /\ browser = <<>>
    /\ req = [kind |-> "none"]
    /\ fn = "none" /\ options = <<>> /\ helper = NoHelper /\ callee = <<>>
    /\ now = 0 /\ pc = "idle"
    /\ timeout = 0 /\ interval = 0 /\ message = "" /\ startTime = 0
    /\ maxRetries = 0 /\ delay = 0 /\ lastError = <<>> /\ attempt = 0
    /\ wakeAt = 0 /\ result = <<>> /\ thrown = <<>>
    /\ calls = 0 /\ settled = 0 /\ sleeps = 0 /\ busy = 0
    /\ log = <<>> /\ onRetryLog = <<>>
    /\ Alone

Request(m, u, id, body, status, data) ==
    [kind |-> "api", method |-> m, user |-> u, id |-> id, body |-> body,
     status |-> status, data |-> data]
NoBody == [completed |-> <<>>, userId |-> <<>>]

\* A request without a session: 401 from every handler, nothing is read or written.
Unauthorized ==
    \E m \in {"GET", "POST", "PATCH", "DELETE", "STATS"} :
        /\ req' = Request(m, "none", 0, NoBody, 401, {})
        /\ UNCHANGED <<db, browser, polling>>

\* GET /api/todos
GetTodos ==
    \E u \in Users :
        /\ req' = Request("GET", u, 0, NoBody, 200, UserTodos(db.rows, u))
        /\ UNCHANGED <<db, browser, polling>>

\* POST /api/todos: a new row of the session user, not completed
PostTodo ==
    \E u \in Users :
        /\ db.seq < MaxTodos
        /\ LET t == [id |-> db.seq + 1, userId |-> u, completed |-> FALSE] IN
           /\ db' = [rows |-> db.rows \cup {t}, seq |-> db.seq + 1]
           /\ req' = Request("POST", u, t.id, NoBody, 200, {t})
        /\ UNCHANGED <<browser, polling>>

\* PATCH /api/todos/[id]: update the row with this id owned by the session user
PatchTodo ==
    \E u \in Users, id \in TodoIds, body \in PatchBodies :
        LET hit == {t \in db.rows : OwnRow(t, id, u)}
            updated == {ApplyPatch(t, body) : t \in hit}
        IN  /\ db' = [db EXCEPT !.rows = (db.rows \ hit) \cup updated]
            /\ req' = Request("PATCH", u, id, body,
                              IF hit = {} THEN 500 ELSE 200, updated)
            /\ UNCHANGED <<browser, polling>>

\* DELETE /api/todos/[id]: delete the row with this id owned by the session user
DeleteTodo ==
    \E u \in Users, id \in TodoIds :
        /\ db' = [db EXCEPT !.rows = {t \in db.rows : ~OwnRow(t, id, u)}]
        /\ req' = Request("DELETE", u, id, NoBody, 200, {})
        /\ UNCHANGED <<browser, polling>>

\* GET /api/todos/stats
GetStats ==
    \E u \in Users :
        /\ req' = Request("STATS", u, 0, NoBody, 200, Stats(db.rows, u))
        /\ UNCHANGED <<db, browser, polling>>

TodosNext ==
    Unauthorized \/ GetTodos \/ PostTodo \/ PatchTodo \/ DeleteTodo \/ GetStats

SpecTodos == TodosInit /\ [][TodosNext]_vars

\* waitForCondition run alone, as a function of its inputs: the outcome, the
\* number of evaluations and the time from start to end, from the loop test at
\* elapsed time el after k evaluations that last d ms each (lines 205-220).
RECURSIVE WfcRun(_, _, _, _, _, _)
WfcRun(c, t, iv, d, el, k) ==
    IF ~LoopGuard(el, 0, t) THEN <<"exhausted", k, el>>
    ELSE IF ConditionResult(c, k + 1) = "true" THEN <<"success", k + 1, el + d>>
    ELSE WfcRun(c, t, iv, d, TimerDue(el + d, iv), k + 1)

(***************************************************************************)
(* Vocabulary of the properties                                            *)
(***************************************************************************)
Wfc == fn = "waitForCondition"
Ra == fn = "retryAction"
Done == pc \in {"success", "exhausted", "escaped"}
Elapsed == now - startTime
\* the condition is true for the first time on call Len(prefix) + 1
BecomesTrue == callee.tail = "true"
FirstTrueAt == Len(callee.prefix) + 1
AllThrow == \A i \in DOMAIN callee.prefix : callee.prefix[i] = "throw"

(***************************************************************************)
(* waitForCondition: properties                                            *)
(***************************************************************************)
\* C1: a condition that is true on its first evaluation makes waitForCondition
\* return successfully after exactly one evaluation and no sleep, for every
\* timeout > 0 and every interval: once called, the run is awaiting that one
\* evaluation or has returned, and no timer was ever set.
C1_ImmediateSuccess ==
    (Wfc /\ pc # "idle" /\ callee.prefix = <<>> /\ BecomesTrue /\ timeout > 0)
        => /\ pc \in {"evaluating", "success"}
           /\ calls = 1
           /\ sleeps = 0
           /\ thrown = <<>>
           /\ (pc = "success" => log = <<"true">>)

C1_Witness ==
    /\ Wfc /\ pc = "success" /\ callee.prefix = <<>> /\ BecomesTrue
    /\ calls = 1 /\ sleeps = 0
    /\ options.timeout = <<3000>> /\ options.interval = <<4000>>

\* C2 as stated: for every M with M * interval < timeout, a condition that throws
\* on its first M evaluations and is true on evaluation M+1 makes waitForCondition
\* return successfully, no thrown error reaching the caller.
C2_AsStated ==
    (Wfc /\ Done /\ BecomesTrue /\ AllThrow
         /\ Len(callee.prefix) * interval < timeout)
        => (pc = "success" /\ thrown = <<>>)

\* C2 amended: the same, for every M with M * interval plus the time spent
\* evaluating the condition < timeout: the run returns successfully after
\* M+1 evaluations, the M errors swallowed, each followed by one sleep.
C2_ErrorTolerance ==
    (Wfc /\ Done /\ BecomesTrue /\ AllThrow
         /\ Len(callee.prefix) * interval + busy < timeout)
        => /\ pc = "success"
           /\ thrown = <<>>
           /\ calls = Len(callee.prefix) + 1
           /\ log = callee.prefix \o <<"true">>

C2_Witness ==
    /\ Wfc /\ pc = "success" /\ BecomesTrue /\ AllThrow
    /\ Len(callee.prefix) = 2 /\ calls = 3 /\ busy > 0
    /\ 2 * interval + busy < timeout

\* C3: a condition that is never true (false or throwing on every evaluation)
\* never makes waitForCondition return successfully; the only way the run ends
\* is the timeout error, raised no earlier than timeout ms after the start, with
\* the message "<message> (timeout: <timeout>ms)".
C3_TimeoutFailure ==
    (Wfc /\ ~BecomesTrue)
        => /\ pc # "success"
           /\ (Done => pc = "exhausted")
           /\ (pc = "exhausted" =>
                 /\ Elapsed >= timeout
                 /\ LET m == IF options.message \in {<<>>, <<"">>}
                             THEN "Condition was not met within timeout"
                             ELSE options.message[1]
                    IN thrown = <<m \o " (timeout: " \o ToString(timeout) \o "ms)">>)

C3_Witness ==
    /\ Wfc /\ pc = "exhausted" /\ callee.prefix = <<"throw", "false">>
    /\ callee.tail = "throw" /\ calls = 3
    /\ thrown = <<"Item count did not exceed 5 (timeout: 3000ms)">>

\* C4 as stated: with instantaneous evaluations, a condition whose first true
\* result is its K-th evaluation, K * interval < timeout, makes waitForCondition
\* return after exactly K evaluations with K * interval of sleep elapsed.
C4_AsStated ==
    (Wfc /\ Done /\ BecomesTrue /\ busy = 0 /\ FirstTrueAt * interval < timeout)
        => /\ pc = "success"
           /\ calls = FirstTrueAt
           /\ Elapsed = FirstTrueAt * interval

\* C4 amended: ... return after exactly K evaluations with (K-1) * interval of
\* sleep elapsed: K-1 sleeps, one after each evaluation that was not true.
C4_EventualSuccess ==
    (Wfc /\ Done /\ BecomesTrue /\ busy = 0 /\ FirstTrueAt * interval < timeout)
        => /\ pc = "success"
           /\ calls = FirstTrueAt
           /\ sleeps = FirstTrueAt - 1
           /\ Elapsed = (FirstTrueAt - 1) * interval

C4_Witness ==
    /\ Wfc /\ pc = "success" /\ busy = 0 /\ callee.async
    /\ FirstTrueAt = 3 /\ calls = 3 /\ interval = 1000 /\ timeout = 5000
    /\ Elapsed = 2000

\* C5: timeout = 5000 ms, interval = 1000 ms and the synchronous condition
\* counter++ >= 3 (false on calls 1..3, which see 0, 1, 2; true on call 4, which
\* sees 3): waitForCondition evaluates 4 times, sleeps 3 times and returns
\* successfully at 3000 ms elapsed.
C5_Scenario ==
    (Wfc /\ Done
         /\ options.timeout = <<5000>> /\ options.interval = <<1000>>
         /\ callee = [prefix |-> <<"false", "false", "false">>, tail |-> "true",
                      async |-> FALSE])
        => /\ pc = "success"
           /\ calls = 4
           /\ log = <<"false", "false", "false", "true">>
           /\ sleeps = 3
           /\ Elapsed = 3000
           /\ Elapsed < timeout

C5_Witness ==
    /\ Wfc /\ pc = "success"
    /\ options.timeout = <<5000>> /\ options.interval = <<1000>>
    /\ callee = [prefix |-> <<"false", "false", "false">>, tail |-> "true",
                 async |-> FALSE]
    /\ calls = 4 /\ now = startTime + 3000

C7_IntervalAboveTimeout ==
    (Wfc /\ ~BecomesTrue /\ 0 < timeout /\ timeout < interval)
        => /\ calls <= 1
           /\ (pc # "idle" => calls = 1)
           /\ (Done => pc = "exhausted" /\ sleeps = 1)

C7_Witness ==
    /\ Wfc /\ pc = "exhausted" /\ ~BecomesTrue
    /\ timeout = 3000 /\ interval = 4000 /\ calls = 1

\* C8: the timeout failure is raised no earlier than timeout ms and no later
\* than timeout + interval ms after the start time captured at the call, also
\* when an evaluation of the condition itself takes time.
C8_TimeoutWindow ==
    (Wfc /\ pc = "exhausted")
        => /\ Elapsed >= timeout
           /\ Elapsed <= timeout + interval

(***************************************************************************)
(* both functions                                                          *)
(***************************************************************************)
\* C9: in waitForCondition and in retryAction, no sleep follows the attempt that
\* succeeds: in every successful run the number of sleeps equals the number of
\* unsuccessful attempts that preceded the success.
C9_NoSleepAfterSuccess ==
    (pc = "success")
        => /\ sleeps = calls - 1
           /\ (Wfc => sleeps = Len(log) - 1 /\ log[Len(log)] = "true")
           /\ (Ra => result = <<calls>>)

C9_Witness ==
    /\ Ra /\ pc = "success" /\ calls = 3 /\ sleeps = 2
    /\ maxRetries = 3 /\ options.onRetry = "returns"

(***************************************************************************)
(* retryAction: properties                                                 *)
(***************************************************************************)
\* C10: for every N with 1 <= N <= maxRetries, an action that throws on its first
\* N-1 invocations and succeeds on invocation N makes retryAction return the
\* value of that N-th invocation, having invoked the action exactly N times and
\* onRetry exactly N-1 times, with attempt numbers 1..N-1 in order, each paired
\* with the error that attempt threw.
C10_RetrySuccess ==
    (Ra /\ Done /\ options.onRetry # "absent" /\ callee.tail = "return"
        /\ Len(callee.prefix) + 1 <= maxRetries)
        => /\ pc = "success"
           /\ result = <<Len(callee.prefix) + 1>>
           /\ calls = Len(callee.prefix) + 1
           /\ onRetryLog = [i \in 1..Len(callee.prefix) |-> <<i, callee.prefix[i]>>]

\* the error the action throws on its k-th invocation (when it throws)
ErrorAt(k) == IF k <= Len(callee.prefix) THEN callee.prefix[k] ELSE callee.tail
AlwaysThrows == callee.tail # "return"
\* attempts that have failed so far
Failed == settled - (IF pc = "success" THEN 1 ELSE 0)

\* C11: an action that throws on every invocation makes retryAction invoke it
\* exactly maxRetries times and then fail with the retries-exhausted error, which
\* reports the attempt count maxRetries and the message of the error thrown by
\* the last (maxRetries-th) invocation.
C11_RetryExhaustion ==
    (Ra /\ Done /\ AlwaysThrows /\ maxRetries >= 1)
        => /\ pc = "exhausted"
           /\ calls = maxRetries
           /\ thrown = <<"Action failed after " \o ToString(maxRetries)
                           \o " retries. Last error: " \o ErrorAt(maxRetries)>>

\* C12 as stated: when every one of the maxRetries attempts fails, onRetry is
\* invoked exactly maxRetries - 1 times (not for the final failed attempt).
C12_AsStated ==
    (Ra /\ Done /\ pc # "success" /\ options.onRetry # "absent"
        /\ maxRetries >= 1 /\ settled = maxRetries)
        => Len(onRetryLog) = maxRetries - 1

\* C12 amended: when every one of the maxRetries attempts fails, onRetry is
\* invoked exactly maxRetries times, once for every failed attempt in order, the
\* final one included.
C12_ObserverOnEveryFailure ==
    (Ra /\ Done /\ pc # "success" /\ options.onRetry # "absent"
        /\ maxRetries >= 1 /\ settled = maxRetries)
        => /\ Len(onRetryLog) = maxRetries
           /\ \A k \in 1..maxRetries : onRetryLog[k] = <<k, ErrorAt(k)>>

C12_Witness ==
    /\ Ra /\ pc = "exhausted" /\ options.onRetry = "returns"
    /\ maxRetries = 4 /\ settled = 4 /\ Len(onRetryLog) = 4
    /\ onRetryLog[4] = <<4, "e2">> /\ onRetryLog[3] = <<3, "e1">>

\* C13: retryAction sleeps for delay exactly once after each failed attempt
\* other than the last permitted one and never after the maxRetries-th failure
\* (a fully failing run sleeps maxRetries - 1 times), and onRetry for attempt k
\* has been called when the sleep that follows attempt k begins.
C13_SleepBetweenAttempts ==
    (Ra /\ pc # "idle" /\ maxRetries >= 1)
        => /\ sleeps = (IF Failed < maxRetries THEN Failed ELSE maxRetries - 1)
           /\ (pc = "waiting" => wakeAt = now + delay /\ sleeps = Failed)
           /\ (pc = "exhausted" => sleeps = maxRetries - 1)
           /\ (pc = "waiting" /\ options.onRetry # "absent"
                 => Len(onRetryLog) = sleeps /\ onRetryLog[sleeps][1] = sleeps)

\* C14: within one invocation of either function the attempts are strictly
\* sequential: at most one evaluation of the condition / action is in flight,
\* and a new one starts only when every earlier one has completed, its error
\* recorded and (retryAction) reported to onRetry.
C14_Sequential ==
    [][/\ calls' - settled' \in {0, 1}
       /\ (calls' - settled' = 1) <=> (pc' = "evaluating")
       /\ calls' # calls =>
            /\ calls' = calls + 1
            /\ settled' = calls
            /\ (Wfc => Len(log') = calls)
            /\ (Ra /\ calls > 0 => lastError' = <<ErrorAt(calls)>>)
            /\ (Ra /\ options.onRetry # "absent" => Len(onRetryLog') = calls)]_vars

C14_Witness ==
    /\ Ra /\ pc = "evaluating" /\ calls = 3 /\ settled = 2
    /\ options.onRetry = "returns" /\ Len(onRetryLog) = 2 /\ callee.async

\* C16: the only failure waitForCondition surfaces is the timeout error: what
\* the condition throws, on any evaluation including the last one before the
\* deadline, is absorbed and counts as "not yet satisfied".
C16_OnlyTimeoutError ==
    Wfc => /\ pc # "escaped"
           /\ (pc = "exhausted") <=> (thrown # <<>>)
           /\ thrown \in {<<>>, <<message \o " (timeout: " \o ToString(timeout) \o "ms)">>}
           /\ (settled > 0 /\ log[settled] = "throw" => pc \in {"waiting", "evaluating", "exhausted"})

C16_Witness ==
    /\ Wfc /\ pc = "exhausted" /\ settled = 3 /\ log = <<"throw", "throw", "throw">>
    /\ thrown = <<"Condition was not met within timeout (timeout: 5000ms)">>

\* C17: the only failure retryAction surfaces is the retries-exhausted error,
\* raised after maxRetries failed attempts: no other error escapes and no run is
\* cut short, whatever the action and the onRetry callback do.
C17_OnlyExhaustedError ==
    Ra => /\ pc # "escaped"
          /\ (thrown # <<>> =>
                /\ pc = "exhausted"
                /\ settled >= maxRetries
                /\ thrown = <<"Action failed after " \o ToString(maxRetries)
                                \o " retries. Last error: "
                                \o (IF settled = 0 THEN "undefined" ELSE ErrorAt(settled))>>)

\* C18 as stated: every run follows Idle -> Evaluating -> {Success,
\* Waiting -> Evaluating, Exhausted}; Success and Exhausted are terminal,
\* Exhausted is entered only from Evaluating and Waiting is always followed by
\* Evaluating.
C18_AsStated ==
    [][LET step == <<pc, pc'>>
       IN  step \in {<<"idle", "evaluating">>, <<"evaluating", "success">>,
                     <<"evaluating", "waiting">>, <<"evaluating", "exhausted">>,
                     <<"waiting", "evaluating">>}]_vars

\* C18 amended: every run follows Idle -> Evaluating -> {Success, Waiting, failure},
\* Waiting -> {Evaluating, Exhausted}, all ends terminal.  waitForCondition enters
\* Exhausted only from Waiting, at the loop test after a sleep (or from Idle when
\* timeout <= 0), never from Evaluating.  retryAction enters Exhausted only from
\* Evaluating, when the maxRetries-th attempt fails (or from Idle when
\* maxRetries < 1), its Waiting is always followed by Evaluating, and a throwing
\* onRetry ends it from Evaluating with the callback's error.
C18_StateMachine ==
    [][\/ pc = "idle" /\ pc' = "evaluating"
       \/ pc = "idle" /\ pc' = "exhausted"
            /\ ((Wfc /\ timeout' <= 0) \/ (Ra /\ maxRetries' < 1))
       \/ pc = "evaluating" /\ pc' = "success"
       \/ pc = "evaluating" /\ pc' = "waiting"
       \/ pc = "evaluating" /\ pc' = "exhausted" /\ Ra /\ calls = maxRetries
       \/ pc = "evaluating" /\ pc' = "escaped" /\ Ra /\ options.onRetry = "throws"
       \/ pc = "waiting" /\ pc' = "evaluating"
       \/ pc = "waiting" /\ pc' = "exhausted" /\ Wfc /\ now' - startTime >= timeout]_vars

C18_Witness ==
    /\ Wfc /\ pc = "exhausted" /\ timeout = 3000 /\ calls = 3 /\ sleeps = 3
    /\ now = wakeAt /\ Elapsed = 3000

(***************************************************************************)
(* waitForApiCondition: properties                                         *)
(***************************************************************************)
Api == fn = "waitForApiCondition"

\* One step of a polling run is the step waitForCondition takes: the first loop
\* test at elapsed 0; after an evaluation, return on true, otherwise (a false
\* result or a thrown error alike) set the timer for interval and do not fail;
\* after the timer, the loop test; every pass of the loop test starts exactly
\* one evaluation.
StepsLikeWaitForCondition ==
    LET outcome == ConditionResult(callee, calls)
        test(n, s, t) == IF LoopGuard(n, s, t) THEN "evaluating" ELSE "exhausted"
    IN  /\ pc = "idle" => pc' = test(now, startTime', timeout') /\ startTime' = now
        /\ pc = "evaluating" =>
             /\ pc' = (IF outcome = "true" THEN "success"
                       ELSE IF Propagates(outcome) THEN "escaped"
                       ELSE IF SleepsAfter(outcome) THEN "waiting"
                       ELSE test(now', startTime, timeout))
             /\ thrown' = <<>>
             /\ pc' = "waiting" => wakeAt' = TimerDue(now', interval) /\ sleeps' = sleeps + 1
        /\ pc = "waiting" => now' = wakeAt /\ pc' = test(now', startTime, timeout)
        /\ calls' = (IF pc' = "evaluating" THEN calls + 1 ELSE calls)
        /\ (thrown' # <<>>) <=> (pc' = "exhausted")

\* C19: waitForApiCondition behaves exactly like waitForCondition run with the
\* same timeout and interval on the condition "perform the GET and apply the
\* predicate", for every sequence of request outcomes: every step of its run is
\* the step waitForCondition takes, and in particular a request or predicate
\* that throws is treated as not yet satisfied and polling continues.
C19_ApiLikeWaitForCondition == [][Api => StepsLikeWaitForCondition]_vars

(***************************************************************************)
(* The wait helpers: properties                                            *)
(***************************************************************************)
ViaHelper == helper.name \in HelperNames

\* C20: each of the four wait helpers runs the polling evaluator with the
\* caller's timeout when one is given (10000 ms otherwise) and with the default
\* 2000 ms interval; its only failure is the evaluator's timeout error carrying
\* the helper's message, and an error thrown by the page read is absorbed as
\* not yet satisfied.
C20_HelpersForward ==
    (ViaHelper /\ pc # "idle")
        => /\ fn = "waitForCondition"
           /\ timeout = (IF helper.options.timeout # <<>>
                         THEN helper.options.timeout[1] ELSE 10000)
           /\ interval = 2000
           /\ pc # "escaped"
           /\ (pc = "exhausted") <=> (thrown # <<>>)
           /\ thrown \in {<<>>, <<HelperMessage(helper.name) \o " (timeout: "
                                    \o ToString(timeout) \o "ms)">>}
           /\ (settled > 0 /\ log[settled] = "throw"
                 => pc \in {"waiting", "evaluating", "exhausted"})

(***************************************************************************)
(* Interleaved invocations: properties                                     *)
(***************************************************************************)
\* C15: two invocations of waitForCondition running interleaved, with different
\* conditions, timeouts and intervals, do not interfere: under every
\* interleaving each one runs on its own configured timeout and interval, and
\* its outcome, its number of evaluations and its duration are those of the
\* same invocation run alone.
C15_NoInterference ==
    \A i \in DOMAIN inv :
        Ended(inv[i]) =>
            /\ inv[i].timeout = inv[i].options.timeout[1]
            /\ inv[i].interval = inv[i].options.interval[1]
            /\ <<inv[i].pc, inv[i].calls, inv[i].due - inv[i].startTime>>
                 = WfcRun(inv[i].cond, inv[i].options.timeout[1],
                          inv[i].options.interval[1], inv[i].dur, 0, 0)

C15_Witness ==
    /\ DOMAIN inv = 1..2
    /\ inv[1].pc = "exhausted" /\ inv[1].timeout = 3000 /\ inv[1].interval = 1000
    /\ inv[1].calls = 3 /\ inv[1].startTime = 0
    /\ inv[2].pc = "success" /\ inv[2].timeout = 5000 /\ inv[2].interval = 4000
    /\ inv[2].calls = 2 /\ inv[2].startTime = 1500
    /\ inv[1].cond # inv[2].cond
    /\ inv[2].due > inv[1].due

(***************************************************************************)
(* Option defaults, poll counts, loop shape                                *)
(***************************************************************************)
\* a non-negative value was explicitly supplied for an option
Supplied(o) == o # <<>> /\ o[1] >= 0

\* C24: every option is configurable to any non-negative value the caller
\* passes: an explicitly supplied timeout, interval, maxRetries or delay, 0
\* included, is the value the run uses; it is not replaced by the default.
C24_ZeroIsKept ==
    /\ (Wfc /\ pc # "idle") =>
         /\ Supplied(options.timeout) => timeout = options.timeout[1]
         /\ Supplied(options.interval) => interval = options.interval[1]
    /\ (Ra /\ pc # "idle") =>
         /\ Supplied(options.maxRetries) => maxRetries = options.maxRetries[1]
         /\ Supplied(options.delay) => delay = options.delay[1]

\* ceil(a / b) for b > 0
CeilDiv(a, b) == IF a <= 0 THEN 0 ELSE (a + b - 1) \div b

\* C25: with instantaneous evaluations and a condition that is never true,
\* waitForCondition evaluates the condition exactly ceil(timeout / interval)
\* times before failing, 5 times under the defaults, and more than once
\* whenever interval < timeout.
C25_PollCount ==
    (Wfc /\ ~BecomesTrue /\ busy = 0 /\ Done)
        => /\ pc = "exhausted"
           /\ calls = CeilDiv(timeout, interval)
           /\ (options.timeout = <<>> /\ options.interval = <<>> => calls = 5)
           /\ (interval < timeout => calls > 1)

C25_Witness ==
    /\ Wfc /\ pc = "exhausted" /\ busy = 0
    /\ options.timeout = <<>> /\ options.interval = <<>>
    /\ timeout = 10000 /\ interval = 2000 /\ calls = 5 /\ Elapsed = 10000

\* C26 as stated: every evaluation starts at an elapsed time strictly below
\* timeout, every evaluation that is not true is followed by one full interval
\* sleep, and the timeout failure is only ever raised immediately after a sleep.
C26_AsStated ==
    [][Wfc =>
        /\ calls' # calls => now' - startTime' < timeout'
        /\ (pc = "evaluating" /\ pc' # "success")
             => pc' = "waiting" /\ wakeAt' = now' + interval
        /\ pc' = "exhausted" => pc = "waiting"]_vars

\* C26 amended: every evaluation starts at an elapsed time strictly below
\* timeout, and every evaluation that is not true is followed by one full
\* interval sleep even when the remaining budget is smaller than interval; the
\* timeout failure is never raised directly after an evaluation: it is raised
\* immediately after a sleep or, when timeout is negative, at the call itself,
\* before any evaluation or sleep.
C26_FailureAfterSleep ==
    [][Wfc =>
        /\ calls' # calls => now' - startTime' < timeout'
        /\ (pc = "evaluating" /\ pc' # "success")
             => pc' = "waiting" /\ wakeAt' = now' + interval
        /\ pc' = "exhausted" =>
             \/ pc = "waiting" /\ now' = wakeAt
             \/ pc = "idle" /\ timeout' < 0 /\ calls' = 0 /\ sleeps' = 0]_vars

C26_Witness ==
    /\ Wfc /\ pc = "exhausted" /\ timeout = 5000 /\ interval = 4000
    /\ sleeps = 2 /\ calls = 2 /\ busy = 0 /\ Elapsed = 8000

\* C28: retryAction never fails without having invoked the action at least
\* once: for every maxRetries a caller can pass, negative ones included, a
\* retries-exhausted failure follows at least one invocation and reports an
\* error the action actually threw.
C28_FailsOnlyAfterAttempt ==
    (Ra /\ pc = "exhausted")
        => /\ calls >= 1
           /\ lastError = <<ErrorAt(calls)>>
           /\ thrown = <<"Action failed after " \o ToString(maxRetries)
                           \o " retries. Last error: " \o ErrorAt(calls)>>

(***************************************************************************)
(* Termination                                                             *)
(***************************************************************************)
\* C27: every invocation eventually terminates: waitForCondition reaches success
\* or the timeout failure, and retryAction reaches success or the
\* retries-exhausted failure after at most maxRetries invocations of the action,
\* provided every evaluation completes and the clock advances during sleeps.
C27_Terminates ==
    <>(/\ pc \in {"success", "exhausted"}
       /\ Ra /\ maxRetries >= 0 => calls <= maxRetries)

(***************************************************************************)
(* Demo app, route protection: properties                                  *)
(***************************************************************************)
\* the path starts with /dashboard or /todos
UnderProtected(p) == StartsWith(p, "/dashboard") \/ StartsWith(p, "/todos")
\* the last request was a navigation to such a path without the session cookie
LoggedOutRequest ==
    req.kind = "navigate" /\ ~req.cookie /\ UnderProtected(req.path)

\* C21 as stated: a request for a path starting with /dashboard or /todos that
\* carries no session cookie is always redirected to /login with the requested
\* path in the from parameter, in every state; no sequence of login, logout and
\* navigate steps lets a browser without the cookie end on such a path.
C21_AsStated ==
    /\ LoggedOutRequest => req.response = RedirectTo("/login", req.path)
    /\ \A b \in DOMAIN browser : ~browser[b].cookie => ~UnderProtected(browser[b].url)

\* C21 amended: the same for every path starting with /dashboard or /todos that
\* does not end in .svg, .png, .jpg, .jpeg, .gif or .webp; a request for a path
\* with such an ending does not pass through the middleware and is not
\* redirected by it.
C21_ProtectedRedirect ==
    LET image(p) == \E e \in {".svg", ".png", ".jpg", ".jpeg", ".gif", ".webp"} :
                        EndsWith(p, e)
    IN  /\ LoggedOutRequest =>
             req.response = (IF image(req.path) THEN Served
                             ELSE RedirectTo("/login", req.path))
        /\ \A b \in DOMAIN browser :
             (~browser[b].cookie /\ UnderProtected(browser[b].url))
                => image(browser[b].url)
        /\ \A b \in DOMAIN browser :
             (~browser[b].cookie /\ browser[b].from # "")
                => browser[b].url = "/login" /\ UnderProtected(browser[b].from)

C21_Witness ==
    /\ LoggedOutRequest /\ req.path = "/todos/7" /\ req.browser = "b1"
    /\ browser["b1"] = [cookie |-> FALSE, url |-> "/login", from |-> "/todos/7"]
    /\ browser["b2"].cookie /\ browser["b2"].url = "/dashboard/settings"

(***************************************************************************)
(* Demo app, todo API: properties                                          *)
(***************************************************************************)
\* the last request is a successful call of the stats endpoint
StatsReported == req.kind = "api" /\ req.method = "STATS" /\ req.status = 200

\* C22: for every user, after any sequence of create / update / delete
\* requests, the stats endpoint reports total = completed + active, and total
\* is the number of that user's todos.
C22_StatsSum ==
    StatsReported =>
        /\ req.data.total = req.data.completed + req.data.active
        /\ req.data.total = Cardinality({t \in db.rows : t.userId = req.user})

C22_Witness ==
    /\ StatsReported /\ req.user = "A"
    /\ req.data = [total |-> 2, completed |-> 1, active |-> 1]
    /\ db.seq = 3 /\ Cardinality(db.rows) = 2

\* the session user marks one of their own active todos as completed
MarksCompleted ==
    /\ req'.kind = "api" /\ req'.method = "PATCH" /\ req'.user \in Users
    /\ req'.body = [completed |-> <<TRUE>>, userId |-> <<>>]
    /\ \E t \in db.rows : t.id = req'.id /\ t.userId = req'.user /\ ~t.completed

\* C23: marking one of a user's active todos as completed decreases that
\* user's active count by exactly one, increases the completed count by exactly
\* one and leaves the total unchanged.
C23_CompleteMovesOne ==
    [][MarksCompleted =>
        LET before == Stats(db.rows, req'.user)
            after == Stats(db'.rows, req'.user)
        IN  /\ after.active = before.active - 1
            /\ after.completed = before.completed + 1
            /\ after.total = before.total
            /\ req'.status = 200]_vars

C23_Witness ==
    /\ req.kind = "api" /\ req.method = "PATCH" /\ req.status = 200
    /\ req.user = "B" /\ req.id = 2
    /\ req.body = [completed |-> <<TRUE>>, userId |-> <<>>]
    /\ [id |-> 2, userId |-> "B", completed |-> TRUE] \in db.rows
    /\ Stats(db.rows, "B") = [total |-> 2, completed |-> 1, active |-> 1]

\* C29: no request made with one user's session changes the set of todos owned
\* by another user or that user's stats: every request reads, updates or deletes
\* only rows of the session user, and a PATCH body cannot reassign a todo to
\* another user.
C29_Isolation ==
    [][\A a \in Users : \A b \in Users \ {a} :
         (req'.kind = "api" /\ req'.user = a)
            => /\ {t \in db'.rows : t.userId = b} = {t \in db.rows : t.userId = b}
               /\ Stats(db'.rows, b) = Stats(db.rows, b)]_vars

====
